---- MODULE Spec2Model ----
(***************************************************************************)
(* A model of the book-store test-data service: the seeded record          *)
(* generator (BookDataGenerator), the POST /api/books handler that pages   *)
(* through it, and the process-wide faker random stream they share.        *)
(*                                                                         *)
(* Numbers that the service receives as reals (avgLikes, avgReviews) are   *)
(* held in tenths: 47 stands for 4.7.  A uniform draw in [0,1) is held in  *)
(* thousandths: 250 stands for 0.25.  Strings whose characters matter are  *)
(* sequences of one-character strings.                                     *)
(***************************************************************************)
EXTENDS Integers, Sequences, FiniteSets, TLC

VARIABLES
    rng,        \* the process-wide faker stream: [seed, pos]
    pending,    \* per connection, the request received and not yet handled
    sent,       \* the response last sent, with the request it answers
    call,       \* the last direct call of a generator method and its result
    client,     \* the state of the page component (AppContent)
    net         \* the fetches of the client in flight, in the order issued

vars == <<rng, pending, sent, call, client, net>>

None == [kind |-> "none"]

\* Let(e, F) is F applied to the value of e: the value is computed once,
\* before F uses it.
Let(e, F(_)) == CHOOSE result \in { F(value) : value \in {e} } : TRUE

(***************************************************************************)
(* Characters and strings                                                  *)
(***************************************************************************)

\* String.prototype.charCodeAt for the characters of a fingerprint string.
charCodeAt(c) ==
    CASE c = "0" -> 48 [] c = "1" -> 49 [] c = "2" -> 50 [] c = "3" -> 51
      [] c = "4" -> 52 [] c = "5" -> 53 [] c = "6" -> 54 [] c = "7" -> 55
      [] c = "8" -> 56 [] c = "9" -> 57 [] c = "." -> 46 [] c = "-" -> 45
      [] c = "e" -> 101 [] c = "n" -> 110 [] c = "U" -> 85 [] c = "S" -> 83
      [] c = "d" -> 100 [] c = "D" -> 68 [] c = "E" -> 69 [] c = "j" -> 106
      [] c = "a" -> 97 [] c = "J" -> 74 [] c = "P" -> 80
      [] c = "f" -> 102 [] c = "r" -> 114 [] c = "F" -> 70 [] c = "R" -> 82

\* The characters of a locale code.
LocaleChars(l) ==
    CASE l = "en-US" -> <<"e","n","-","U","S">>
      [] l = "de-DE" -> <<"d","e","-","D","E">>
      [] l = "ja-JP" -> <<"j","a","-","J","P">>
      [] l = "fr-FR" -> <<"f","r","-","F","R">>

DigitChar(d) == <<"0","1","2","3","4","5","6","7","8","9">>[d + 1]

\* Number-to-string of a non-negative integer.
RECURSIVE IntToStr(_)
IntToStr(n) ==
    IF n < 10 THEN <<DigitChar(n)>>
    ELSE Append(IntToStr(n \div 10), DigitChar(n % 10))

\* Number-to-string of a non-negative number held in tenths, as a template
\* literal `${x}` renders it: "5" for 5, "4.7" for 4.7, "0.3" for 0.3.
NumToStr(t) ==
    IF t % 10 = 0 THEN IntToStr(t \div 10)
    ELSE IntToStr(t \div 10) \o <<".", DigitChar(t % 10)>>

\* String.prototype.toUpperCase on one character.
toUpperCase(c) ==
    CASE c = "o" -> "O" [] c = "q" -> "Q" [] c = "e" -> "E" [] c = "s" -> "S"
      [] c = "g" -> "G" [] c = "r" -> "R" [] OTHER -> c

\* The % operator of the language: the remainder takes the dividend's sign.
JsRem(a, b) == IF a >= 0 THEN a % b ELSE -((-a) % b)

MathAbs(n) == IF n < 0 THEN -n ELSE n

MathMin(a, b) == IF a < b THEN a ELSE b

(***************************************************************************)
(* The random stream (faker).  The library is a third-party collaborator;  *)
(* the model keeps what the service relies on: seed() resets the stream to *)
(* a state that depends on the seed alone, and every draw is a function of *)
(* the stream's state and advances it by one.  A stream value threaded     *)
(* through the generator also carries the log of what was asked of it.     *)
(***************************************************************************)

\* The value of the draw at position pos of the stream seeded with seed,
\* in thousandths.
Uniform(seed, pos) ==
    LET a == seed % 1009
        b == seed % 31
    IN (a * 389 + pos * 617 + (b + 3) * pos * pos * 71 + a * pos * 137 + 89) % 1000

\* faker.seed(n)
fakerSeed(st, n) == [seed |-> n, pos |-> 0, log |-> Append(st.log, "seed")]

\* faker.number.float({ min: 0, max: 1 }) and every other single draw.
fakerFloat(st, label) ==
    [v  |-> Uniform(st.seed, st.pos),
     st |-> [seed |-> st.seed, pos |-> st.pos + 1, log |-> Append(st.log, label)]]

\* faker.number.int({ min, max })
fakerInt(st, min, max, label) ==
    Let(fakerFloat(st, label), LAMBDA d :
        [v |-> min + (d.v * (max - min + 1)) \div 1000, st |-> d.st])

\* faker.helpers.arrayElement(array)
arrayElement(st, array, label) ==
    Let(fakerFloat(st, label), LAMBDA d :
        [v |-> array[1 + (d.v * Len(array)) \div 1000], st |-> d.st])

RECURSIVE WeightedPick(_, _, _, _)
WeightedPick(array, i, current, random) ==
    IF i = Len(array) \/ random < (current + array[i].weight) * 1000
    THEN array[i].value
    ELSE WeightedPick(array, i + 1, current + array[i].weight, random)

RECURSIVE SumWeights(_, _)
SumWeights(array, i) ==
    IF i > Len(array) THEN 0 ELSE array[i].weight + SumWeights(array, i + 1)

\* faker.helpers.weightedArrayElement(array)
weightedArrayElement(st, array, label) ==
    Let(fakerFloat(st, label), LAMBDA d :
    Let(d.v * SumWeights(array, 1), LAMBDA random :
        [v |-> WeightedPick(array, 1, 0, random), st |-> d.st]))

Stream(r) == [seed |-> r.seed, pos |-> r.pos, log |-> <<>>]

StateOf(st) == [seed |-> st.seed, pos |-> st.pos]

(***************************************************************************)
(* BookDataGenerator.  A generator instance gen is the record of its four  *)
(* private fields [locale, baseSeed, avgLikes, avgReviews].                *)
(***************************************************************************)

BookDataGenerator(locale, seed, avgLikes, avgReviews) ==
    [locale |-> locale, baseSeed |-> seed, avgLikes |-> avgLikes, avgReviews |-> avgReviews]

\* One round of the accumulator on 16-bit halves <<high, low>> of the 32-bit
\* word: hash = ((hash << 5) - hash) + char; hash = hash & hash.
HashStep(h, char) ==
    LET low  == h[2] * 31 + char
        high == h[1] * 31 + low \div 65536
    IN <<high % 65536, low % 65536>>

RECURSIVE HashLoop(_, _, _)
HashLoop(str, i, h) ==
    IF i > Len(str) THEN h
    ELSE Let(HashStep(h, charCodeAt(str[i])), LAMBDA hash : HashLoop(str, i + 1, hash))

\* The signed 32-bit value of the halves.
ToInt32(h) == IF h[1] >= 32768 THEN (h[1] - 65536) * 65536 + h[2] ELSE h[1] * 65536 + h[2]

\* The fingerprint string without the last average.
FingerprintStringNoReviews(gen) ==
    LocaleChars(gen.locale) \o <<"-">> \o NumToStr(gen.avgLikes)

FingerprintString(gen) ==
    LocaleChars(gen.locale) \o <<"-">> \o NumToStr(gen.avgLikes) \o <<"-">> \o NumToStr(gen.avgReviews)

hashParameters(gen) ==
    Let(FingerprintString(gen), LAMBDA str :
    Let(ToInt32(HashLoop(str, 1, <<0, 0>>)), LAMBDA hash : MathAbs(hash)))

\* The derived seed with the index weighted twice.
uniqueSeedIndexTwice(gen, index) == gen.baseSeed + hashParameters(gen) + 2 * index

uniqueSeed(gen, index) == gen.baseSeed + hashParameters(gen) + index

\* setSeedForIndex seeding once per parameter set: no faker.seed when the
\* stream was last seeded for a record of the same parameters.
setSeedForIndexOncePerParameters(gen, index, st) ==
    IF st.seed - uniqueSeed(gen, 0) \in 1..1000 THEN st
    ELSE fakerSeed(st, uniqueSeed(gen, index))

\* setSeedForIndex without the call of faker.seed: the stream goes on from
\* where the previous record left it.
setSeedForIndexNoReseed(gen, index, st) == st

setSeedForIndex(gen, index, st) == fakerSeed(st, uniqueSeed(gen, index))

generateISBN(st) ==
    Let(arrayElement(st, <<"978", "979">>, "isbn"), LAMBDA prefix :
    Let(fakerInt(prefix.st, 0, 9, "isbn"), LAMBDA group :
    Let(fakerInt(group.st, 10, 999, "isbn"), LAMBDA publisher :
    Let(fakerInt(publisher.st, 10, 999, "isbn"), LAMBDA title :
    Let(fakerInt(title.st, 0, 9, "isbn"), LAMBDA checkDigit :
        [v  |-> <<prefix.v, group.v, publisher.v, title.v, checkDigit.v>>,
         st |-> checkDigit.st])))))

Sentiments == {"positive", "neutral", "negative"}

\* How many texts the corpus of a locale holds for a sentiment.
CorpusSize(locale, sentiment) ==
    CASE locale = "en-US" -> (CASE sentiment = "positive" -> 8 [] sentiment = "neutral" -> 6 [] sentiment = "negative" -> 6)
      [] locale = "de-DE" -> (CASE sentiment = "positive" -> 4 [] sentiment = "neutral" -> 3 [] sentiment = "negative" -> 3)
      [] locale = "ja-JP" -> (CASE sentiment = "positive" -> 3 [] sentiment = "neutral" -> 2 [] sentiment = "negative" -> 2)

SupportedLocales == {"en-US", "de-DE", "ja-JP"}

\* reviews[locale][sentiment]: the k-th text literal of the table is named by
\* <<locale, sentiment, k>>; the literals of the table are pairwise distinct.
ReviewCorpus(locale, sentiment) ==
    LET l == IF locale \in SupportedLocales THEN locale ELSE "en-US"
    IN [k \in 1..CorpusSize(l, sentiment) |-> <<l, sentiment, k>>]

generateReviewText(gen, sentiment, st) ==
    arrayElement(st, ReviewCorpus(gen.locale, sentiment), "text")

\* The sentiment of a like ratio (in tenths) and a draw (in thousandths).
\* The bands with their lower ends included.
SentimentOfInclusive(likeRatio, random) ==
    IF likeRatio >= 7
    THEN (IF random < 800 THEN "positive" ELSE IF random < 950 THEN "neutral" ELSE "negative")
    ELSE IF likeRatio >= 4
    THEN (IF random < 500 THEN "positive" ELSE IF random < 850 THEN "neutral" ELSE "negative")
    ELSE (IF random < 200 THEN "positive" ELSE IF random < 600 THEN "neutral" ELSE "negative")

SentimentOf(likeRatio, random) ==
    IF likeRatio > 7
    THEN (IF random < 800 THEN "positive" ELSE IF random < 950 THEN "neutral" ELSE "negative")
    ELSE IF likeRatio > 4
    THEN (IF random < 500 THEN "positive" ELSE IF random < 850 THEN "neutral" ELSE "negative")
    ELSE (IF random < 200 THEN "positive" ELSE IF random < 600 THEN "neutral" ELSE "negative")

determineReviewSentiment(bookLikes, st) ==
    Let(MathMin(bookLikes, 10), LAMBDA likeRatio :
    Let(fakerFloat(st, "sentiment"), LAMBDA random :
        [v |-> SentimentOf(likeRatio, random.v), st |-> random.st]))

RatingWeights(sentiment) ==
    CASE sentiment = "positive" ->
            <<[weight |-> 60, value |-> 5], [weight |-> 30, value |-> 4], [weight |-> 10, value |-> 3]>>
      [] sentiment = "neutral" ->
            <<[weight |-> 50, value |-> 3], [weight |-> 25, value |-> 4], [weight |-> 25, value |-> 2]>>
      [] sentiment = "negative" ->
            <<[weight |-> 50, value |-> 1], [weight |-> 30, value |-> 2], [weight |-> 20, value |-> 3]>>

generateRatingFromSentiment(sentiment, st) ==
    weightedArrayElement(st, RatingWeights(sentiment), "rating")

capitalizeFirst(str) ==
    IF str = <<>> THEN str ELSE <<toUpperCase(str[1])>> \o SubSeq(str, 2, Len(str))

\* faker.word.adjective() and faker.word.noun(): a stand-in word list.
Adjectives == << <<"o","l","d">>, <<"q","u","i","e","t">>,
                 <<"e","x","t","r","a","o","r","d","i","n","a","r","y">> >>

Nouns == << <<"s","e","a">>, <<"g","a","r","d","e","n">>,
            <<"r","e","s","p","o","n","s","i","b","i","l","i","t","y">> >>

wordAdjective(st) == arrayElement(st, Adjectives, "title")

wordNoun(st) == arrayElement(st, Nouns, "title")

\* The templates of a locale: the literal text before, between and after
\* the two words, and which word list each of the two draws from.  In the
\* ja-JP templates "no", "na" and "to" each stand for the one kana character
\* of the source and count as one character.
TitleTemplates(locale) ==
    CASE locale = "de-DE" ->
            << [pre |-> <<"D","e","r"," ">>, w1 |-> "adj", mid |-> <<" ">>, w2 |-> "noun"],
               [pre |-> <<"D","i","e"," ">>, w1 |-> "adj", mid |-> <<"e"," ">>, w2 |-> "noun"],
               [pre |-> <<"D","a","s"," ">>, w1 |-> "adj", mid |-> <<"e"," ">>, w2 |-> "noun"],
               [pre |-> <<"I","m"," ">>, w1 |-> "noun", mid |-> <<" ","d","e","r"," ">>, w2 |-> "noun"] >>
      [] locale = "ja-JP" ->
            << [pre |-> <<>>, w1 |-> "noun", mid |-> <<"no">>, w2 |-> "adj"],
               [pre |-> <<>>, w1 |-> "adj", mid |-> <<"na">>, w2 |-> "noun"],
               [pre |-> <<>>, w1 |-> "noun", mid |-> <<"to">>, w2 |-> "noun"] >>
      [] OTHER ->
            << [pre |-> <<"T","h","e"," ">>, w1 |-> "adj", mid |-> <<" ">>, w2 |-> "noun"],
               [pre |-> <<>>, w1 |-> "adj", mid |-> <<" ">>, w2 |-> "noun"],
               [pre |-> <<"A"," ">>, w1 |-> "adj", mid |-> <<" ">>, w2 |-> "noun"],
               [pre |-> <<>>, w1 |-> "noun", mid |-> <<" ","o","f"," ">>, w2 |-> "noun"],
               [pre |-> <<"T","h","e"," ">>, w1 |-> "noun", mid |-> <<"'","s"," ">>, w2 |-> "noun"] >>

Word(kind, st) == IF kind = "adj" THEN wordAdjective(st) ELSE wordNoun(st)

generateBookTitle(gen, st) ==
    Let(arrayElement(st, TitleTemplates(gen.locale), "title"), LAMBDA template :
    Let(Word(template.v.w1, template.st), LAMBDA first :
    Let(Word(template.v.w2, first.st), LAMBDA second :
        [v  |-> template.v.pre \o capitalizeFirst(first.v) \o template.v.mid
                    \o capitalizeFirst(second.v),
         st |-> second.st])))

\* generateExactCount with the comparison of the draw turned around.
generateExactCountFlipped(targetValue, st, label) ==
    IF targetValue = 0 THEN [v |-> 0, st |-> st]
    ELSE LET integerPart    == targetValue \div 10
             fractionalPart == targetValue % 10
         IN IF fractionalPart > 0
            THEN Let(fakerFloat(st, label), LAMBDA random :
                     [v  |-> IF random.v > fractionalPart * 100 THEN integerPart + 1
                             ELSE integerPart,
                      st |-> random.st])
            ELSE [v |-> integerPart, st |-> st]

\* generateExactCount with the draw made for every target, zero and whole
\* targets included.
generateExactCountAlwaysDraw(targetValue, st, label) ==
    Let(fakerFloat(st, label), LAMBDA random :
        [v  |-> IF random.v < (targetValue % 10) * 100 THEN targetValue \div 10 + 1
                ELSE targetValue \div 10,
         st |-> random.st])

generateExactCount(targetValue, st, label) ==
    IF targetValue = 0 THEN [v |-> 0, st |-> st]
    ELSE LET integerPart    == targetValue \div 10
             fractionalPart == targetValue % 10        \* in tenths
         IN IF fractionalPart > 0
            THEN Let(fakerFloat(st, label), LAMBDA random :
                     [v  |-> IF random.v < fractionalPart * 100 THEN integerPart + 1
                             ELSE integerPart,
                      st |-> random.st])
            ELSE [v |-> integerPart, st |-> st]

Truncate(str, n) == IF Len(str) > n THEN SubSeq(str, 1, n) \o <<".", ".", ".">> ELSE str

generateCoverImage(gen, title, author, index) ==
    LET width   == 400
        height  == 600
        imageId == JsRem(gen.baseSeed + hashParameters(gen) + index, 1000)
    IN [imageUrl |-> <<"https://picsum.photos/seed/", imageId, width, height>>,
        title    |-> Truncate(title, 25),
        author   |-> Truncate(author, 20)]

\* faker.person.fullName(), faker.company.name(), faker.internet.username():
\* stand-in lists.
FullNames == << <<"A","d","a"," ","L","e","e">>,
                <<"K","e","n","j","i"," ","S","a","t","o">>,
                <<"M","a","x","i","m","i","l","i","a","n","e"," ","W","o","l","f","e","s","c","h","l","e","g","e","l">> >>

CompanyNames == << <<"A","c","m","e">>, <<"O","r","b","i","t"," ","G","r","o","u","p">> >>

Usernames == << <<"a","n","n","4","2">>, <<"b","o","b","_","k">>, <<"c","y","7">> >>

personFullName(st) == arrayElement(st, FullNames, "author")

companyName(st) == arrayElement(st, CompanyNames, "publisher")

internetUsername(st) == arrayElement(st, Usernames, "reviewer")

\* faker.date.between(...).getFullYear() for 1945-01-01 .. 2025-08-04.
publicationYear(st) ==
    Let(fakerFloat(st, "year"), LAMBDA d :
        [v |-> 1945 + (d.v * 8059) \div 100000, st |-> d.st])

\* Date.prototype.toLocaleDateString(locale) of a date [y, m, d].
toLocaleDateString(date, locale) ==
    CASE locale = "de-DE" -> <<date.d, ".", date.m, ".", date.y>>
      [] locale = "ja-JP" -> <<date.y, "/", date.m, "/", date.d>>
      [] OTHER            -> <<date.m, "/", date.d, "/", date.y>>

\* faker.date.between({ from: '2020-01-01', to: '2024-12-31' })
reviewDate(st) ==
    Let(fakerFloat(st, "date"), LAMBDA r :
        [v  |-> [y |-> 2020 + (r.v * 5) \div 1000, m |-> 1 + (r.v % 12), d |-> 1 + (r.v % 28)],
         st |-> r.st])

\* The author loop of generateBook: numAuthors names pushed in order.
RECURSIVE AuthorLoop(_, _, _)
AuthorLoop(i, numAuthors, acc) ==
    IF i >= numAuthors THEN acc
    ELSE Let(personFullName(acc.st), LAMBDA name :
         Let([v |-> Append(acc.v, name.v), st |-> name.st], LAMBDA next :
             AuthorLoop(i + 1, numAuthors, next)))

\* One pass of the review loop of generateBook.
\* generateReview with the sentiment sampled once for the rating and once
\* more for the text.
generateReviewTwoSentiments(gen, likes, st) ==
    Let(determineReviewSentiment(likes, st), LAMBDA sentiment :
    Let(generateRatingFromSentiment(sentiment.v, sentiment.st), LAMBDA rating :
    Let(determineReviewSentiment(likes, rating.st), LAMBDA second :
    Let(generateReviewText(gen, second.v, second.st), LAMBDA reviewText :
    Let(internetUsername(reviewText.st), LAMBDA reviewer :
    Let(reviewDate(reviewer.st), LAMBDA date :
        [v  |-> [reviewer |-> reviewer.v, rating |-> rating.v, text |-> reviewText.v,
                 date |-> toLocaleDateString(date.v, gen.locale)],
         st |-> date.st]))))))

generateReview(gen, likes, st) ==
    Let(determineReviewSentiment(likes, st), LAMBDA sentiment :
    Let(generateRatingFromSentiment(sentiment.v, sentiment.st), LAMBDA rating :
    Let(generateReviewText(gen, sentiment.v, rating.st), LAMBDA reviewText :
    Let(internetUsername(reviewText.st), LAMBDA reviewer :
    Let(reviewDate(reviewer.st), LAMBDA date :
        [v  |-> [reviewer |-> reviewer.v, rating |-> rating.v, text |-> reviewText.v,
                 date |-> toLocaleDateString(date.v, gen.locale)],
         st |-> date.st])))))

\* The review loop of generateBook: passes i .. numReviews-1 in order, from
\* acc (split in two like the book loop).
RECURSIVE ReviewLoop(_, _, _, _, _)
ReviewLoop(gen, likes, i, numReviews, acc) ==
    IF i >= numReviews THEN acc
    ELSE IF i + 1 = numReviews
    THEN Let(generateReview(gen, likes, acc.st), LAMBDA review :
             [v |-> Append(acc.v, review.v), st |-> review.st])
    ELSE Let((i + numReviews) \div 2, LAMBDA mid :
         Let(ReviewLoop(gen, likes, i, mid, acc), LAMBDA half :
             ReviewLoop(gen, likes, mid, numReviews, half)))

PublisherTypes == << <<"P","r","e","s","s">>, <<"P","u","b","l","i","s","h","i","n","g">>,
                     <<"B","o","o","k","s">>, <<"M","e","d","i","a">>, <<"H","o","u","s","e">> >>

\* generateBook with the identifier generated first, before the title.
generateBookIsbnFirst(gen, index, st0) ==
    Let(setSeedForIndex(gen, index, st0), LAMBDA seeded :
    Let(generateISBN(seeded), LAMBDA isbn :
    Let(generateBookTitle(gen, isbn.st), LAMBDA title :
    Let(fakerInt(title.st, 1, 3, "numAuthors"), LAMBDA numAuthors :
    Let(AuthorLoop(0, numAuthors.v, [v |-> <<>>, st |-> numAuthors.st]), LAMBDA authors :
    Let(companyName(authors.st), LAMBDA company :
    Let(arrayElement(company.st, PublisherTypes, "publisher"), LAMBDA ptype :
    Let(publicationYear(ptype.st), LAMBDA year :
    Let(generateExactCount(gen.avgLikes, year.st, "likes"), LAMBDA likes :
    Let(generateExactCount(gen.avgReviews, likes.st, "numReviews"), LAMBDA numReviews :
    Let(ReviewLoop(gen, likes.v, 0, numReviews.v, [v |-> <<>>, st |-> numReviews.st]), LAMBDA reviews :
        [v  |-> [index      |-> index,
                 isbn       |-> isbn.v,
                 title      |-> title.v,
                 authors    |-> authors.v,
                 publisher  |-> company.v \o <<" ">> \o ptype.v,
                 year       |-> year.v,
                 likes      |-> likes.v,
                 reviews    |-> reviews.v,
                 coverImage |-> generateCoverImage(gen, title.v, authors.v[1], index)],
         st |-> reviews.st])))))))))))

\* generateBook(index) on generator gen, started with the shared stream in
\* state st0.  The result carries the record, the stream it leaves behind
\* and the log of what it asked of the stream.
generateBook(gen, index, st0) ==
    Let(setSeedForIndex(gen, index, st0), LAMBDA seeded :
    Let(generateBookTitle(gen, seeded), LAMBDA title :
    Let(fakerInt(title.st, 1, 3, "numAuthors"), LAMBDA numAuthors :
    Let(AuthorLoop(0, numAuthors.v, [v |-> <<>>, st |-> numAuthors.st]), LAMBDA authors :
    Let(companyName(authors.st), LAMBDA company :
    Let(arrayElement(company.st, PublisherTypes, "publisher"), LAMBDA ptype :
    Let(publicationYear(ptype.st), LAMBDA year :
    Let(generateExactCount(gen.avgLikes, year.st, "likes"), LAMBDA likes :
    Let(generateExactCount(gen.avgReviews, likes.st, "numReviews"), LAMBDA numReviews :
    Let(ReviewLoop(gen, likes.v, 0, numReviews.v, [v |-> <<>>, st |-> numReviews.st]), LAMBDA reviews :
    Let(generateISBN(reviews.st), LAMBDA isbn :
        [v  |-> [index      |-> index,
                 isbn       |-> isbn.v,
                 title      |-> title.v,
                 authors    |-> authors.v,
                 publisher  |-> company.v \o <<" ">> \o ptype.v,
                 year       |-> year.v,
                 likes      |-> likes.v,
                 reviews    |-> reviews.v,
                 coverImage |-> generateCoverImage(gen, title.v, authors.v[1], index)],
         st |-> isbn.st])))))))))))

(***************************************************************************)
(* The request body and its validation (bookRequestSchema).  A JSON value  *)
(* of the body is absent, a string, or a number int + frac/10 with frac a  *)
(* digit (frac = 0 exactly when the number is an integer).                 *)
(***************************************************************************)

Absent == [kind |-> "absent"]

Str(s) == [kind |-> "string", str |-> s]

Num(i, f) == [kind |-> "number", int |-> i, frac |-> f]

Whole(i) == Num(i, 0)

\* A number held in tenths, as a JSON value.
Tenths(t) == Num(t \div 10, t % 10)

\* Joi.number() on one key: the first rule that fails, or "ok".
\* rules: integer (a flag), and min and max in tenths when present.
\* Joi.number() with the max rule left out.
JoiNumberNoMax(value, integer, hasMin, min, hasMax, max) ==
    IF value.kind = "absent" THEN "any.required"
    ELSE IF value.kind # "number" THEN "number.base"
    ELSE IF integer /\ value.frac # 0 THEN "number.integer"
    ELSE IF hasMin /\ value.int * 10 + value.frac < min THEN "number.min"
    ELSE "ok"

JoiNumber(value, integer, hasMin, min, hasMax, max) ==
    IF value.kind = "absent" THEN "any.required"
    ELSE IF value.kind # "number" THEN "number.base"
    ELSE IF integer /\ value.frac # 0 THEN "number.integer"
    ELSE IF hasMin /\ value.int * 10 + value.frac < min THEN "number.min"
    ELSE IF hasMax /\ value.int * 10 + value.frac > max THEN "number.max"
    ELSE "ok"

\* Joi.string().valid(...).default('en-US') on the locale key.
JoiLocale(value) ==
    IF value.kind = "absent" THEN "ok"
    ELSE IF value.kind # "string" THEN "string.base"
    ELSE IF value.str \notin SupportedLocales THEN "any.only"
    ELSE "ok"

\* bookRequestSchema.validate(body): the keys are validated in the order the
\* schema lists them and validation stops at the first error.
bookRequestSchema(body) ==
    LET page       == JoiNumber(body.page, TRUE, TRUE, 0, FALSE, 0)
        locale     == JoiLocale(body.locale)
        seed       == JoiNumber(body.seed, TRUE, FALSE, 0, FALSE, 0)
        avgLikes   == JoiNumber(body.avgLikes, FALSE, TRUE, 0, TRUE, 100)
        avgReviews == JoiNumber(body.avgReviews, FALSE, TRUE, 0, TRUE, 200)
        error      == IF page # "ok" THEN [kind |-> "error", key |-> "page", type |-> page]
                      ELSE IF locale # "ok" THEN [kind |-> "error", key |-> "locale", type |-> locale]
                      ELSE IF seed # "ok" THEN [kind |-> "error", key |-> "seed", type |-> seed]
                      ELSE IF avgLikes # "ok" THEN [kind |-> "error", key |-> "avgLikes", type |-> avgLikes]
                      ELSE IF avgReviews # "ok" THEN [kind |-> "error", key |-> "avgReviews", type |-> avgReviews]
                      ELSE None
    IN [error |-> error,
        value |-> IF error # None THEN None
                  ELSE [kind       |-> "value",
                        page       |-> body.page.int,
                        locale     |-> IF body.locale.kind = "absent" THEN "en-US" ELSE body.locale.str,
                        seed       |-> body.seed.int,
                        avgLikes   |-> body.avgLikes.int * 10 + body.avgLikes.frac,
                        avgReviews |-> body.avgReviews.int * 10 + body.avgReviews.frac]]

(***************************************************************************)
(* app.post('/api/books')                                                  *)
(***************************************************************************)

PageCount(page) == IF page = 0 THEN 20 ELSE 10

\* startIndex with page 0 counted as a page of 10.
PageStartIndexTens(page) == page * 10 + 1

PageStartIndex(page) == IF page = 0 THEN 1 ELSE 20 + (page - 1) * 10 + 1

\* for (let i = 0; i < count; i++) books.push(generator.generateBook(startIndex + i))
\* Passes i .. count-1 of the loop, in order, from acc; the range is split in
\* two so that the nesting of the evaluation stays shallow.
RECURSIVE BookLoop(_, _, _, _, _)
BookLoop(generator, startIndex, i, count, acc) ==
    IF i >= count THEN acc
    ELSE IF i + 1 = count
    THEN Let(generateBook(generator, startIndex + i, acc.st), LAMBDA book :
             [v |-> Append(acc.v, book.v), st |-> book.st])
    ELSE Let((i + count) \div 2, LAMBDA mid :
         Let(BookLoop(generator, startIndex, i, mid, acc), LAMBDA half :
             BookLoop(generator, startIndex, mid, count, half)))

\* hasMore with the comparison one off.
HasMoreInclusive(page) == page <= 50

HasMore(page) == page < 50

\* The handler on request body `body`, started with the shared stream in
\* state st0: the status, the JSON sent, and the stream it leaves behind.
\* (metadata.generatedAt, the wall-clock time of the response, is left out.)
PostBooks(body, st0) ==
    Let(bookRequestSchema(body), LAMBDA validated :
        IF validated.error # None
        THEN [status |-> 400,
              json   |-> [error |-> "Validation error", details |-> <<validated.error>>],
              st     |-> st0]
        ELSE
    Let(validated.value, LAMBDA value :
    Let(BookDataGenerator(value.locale, value.seed, value.avgLikes, value.avgReviews), LAMBDA generator :
    Let(BookLoop(generator, PageStartIndex(value.page), 0, PageCount(value.page),
                 [v |-> <<>>, st |-> st0]), LAMBDA books :
        [status |-> 200,
         json   |-> [books    |-> books.v,
                     page     |-> value.page,
                     hasMore  |-> HasMore(value.page),
                     metadata |-> [locale |-> value.locale, seed |-> value.seed,
                                   avgLikes |-> value.avgLikes, avgReviews |-> value.avgReviews]],
         st     |-> books.st]))))

(***************************************************************************)
(* Bounds and the inputs the specifications draw from                      *)
(***************************************************************************)

MaxPage == 51

NumConns == 2

MaxIndex == 20

MaxDraws == 3

\* The parameters of the concrete scenario: zero averages.
ZeroGen == BookDataGenerator("en-US", 42, 0, 0)

\* Other parameter sets: fractional, whole and zero averages, the three
\* locales, a negative seed, and likes in each popularity band.
OtherGens ==
    { BookDataGenerator("de-DE", 7, 0, 8),
      BookDataGenerator("de-DE", 42, 37, 15),
      BookDataGenerator("en-US", 42, 60, 24),
      BookDataGenerator("ja-JP", -7, 100, 30) }

Gens == {ZeroGen} \cup OtherGens

\* The request body a client sends for page `page` of parameters gen.
BodyOf(page, gen) ==
    [page       |-> Whole(page),
     locale     |-> Str(gen.locale),
     seed       |-> Whole(gen.baseSeed),
     avgLikes   |-> Tenths(gen.avgLikes),
     avgReviews |-> Tenths(gen.avgReviews)]

ValidBodies ==
    { BodyOf(page, ZeroGen) : page \in 0..MaxPage }
        \cup { BodyOf(page, gen) : page \in 0..1, gen \in OtherGens }
        \cup { BodyOf(page, BookDataGenerator("de-DE", 7, 0, 8)) : page \in 49..50 }
        \cup { [BodyOf(1, ZeroGen) EXCEPT !.locale = Absent] }

\* Bodies that the schema refuses, each wrong in one key.
InvalidBodies ==
    LET base == BodyOf(1, ZeroGen)
    IN { [base EXCEPT !.page = v] : v \in {Whole(-1), Num(0, 5), Absent, Str("abc")} }
         \cup { [base EXCEPT !.locale = v] : v \in {Str("fr-FR"), Whole(1)} }
         \cup { [base EXCEPT !.seed = v] : v \in {Absent, Num(1, 5)} }
         \cup { [base EXCEPT !.avgLikes = v] : v \in {Num(-1, 9), Num(10, 1), Absent} }
         \cup { [base EXCEPT !.avgReviews = v] : v \in {Num(20, 1), Whole(-1), Absent} }

Bodies == ValidBodies \cup InvalidBodies

\* The stream before anything seeded it: faker seeds itself at start-up
\* with a value the service does not choose.
BootSeeds == {0, 12345}

FreshStream == [seed |-> 0, pos |-> 0, log |-> <<>>]

(***************************************************************************)
(* The server: requests arrive on connections and the handler runs to      *)
(* completion on one of them at a time (the handler is synchronous).       *)
(* sent is the response of the handler run that has just finished.         *)
(***************************************************************************)

Conns == 1..NumConns

InitServer ==
    /\ rng \in [seed : BootSeeds, pos : {0}]
    /\ pending = [c \in Conns |-> None]
    /\ sent = None
    /\ call = None
    /\ client = None
    /\ net = <<>>

\* A request with body `body` arrives on connection c.
Receive(c, body) ==
    /\ pending[c] = None
    /\ pending' = [pending EXCEPT ![c] = [kind |-> "request", body |-> body]]
    /\ sent' = None
    /\ UNCHANGED <<rng, call, client, net>>

\* The response of a handler run res on body `body` of connection c.
\* before is the stream as the run found it, st the stream as the run left
\* it, log the record of what the run asked of the stream, others the
\* connections with a request waiting while it ran.
Response(c, body, res, others) ==
    [kind   |-> "response",
     conn   |-> c,
     body   |-> body,
     status |-> res.status,
     json   |-> res.json,
     before |-> rng,
     st     |-> StateOf(res.st),
     log    |-> res.st.log,
     others |-> others]

\* The handler runs on the request of connection c and sends its response.
Handle(c) ==
    /\ pending[c] # None
    /\ LET res == PostBooks(pending[c].body, Stream(rng))
       IN /\ sent' = Response(c, pending[c].body, res,
                               {d \in Conns \ {c} : pending[d] # None})
          /\ rng' = StateOf(sent'.st)
    /\ pending' = [pending EXCEPT ![c] = None]
    /\ UNCHANGED <<call, client, net>>

\* One connection, every page up to MaxPage.
Next ==
    \/ \E body \in Bodies : Receive(1, body)
    \/ Handle(1)

Spec == InitServer /\ [][Next]_vars

(***************************************************************************)
(* The generator alone: generateBook called on any generator instance and  *)
(* any index, in any order, on the one shared stream.                      *)
(***************************************************************************)

InitGen ==
    /\ rng \in [seed : BootSeeds, pos : {0}]
    /\ pending = [c \in Conns |-> None]
    /\ sent = None
    /\ call = None
    /\ client = None
    /\ net = <<>>

\* new BookDataGenerator(...gen).generateBook(index)
Generate(gen, index) ==
    /\ LET res == generateBook(gen, index, Stream(rng))
       IN call' = [kind  |-> "generateBook",
                   gen   |-> gen,
                   index |-> index,
                   book  |-> res.v,
                   st    |-> StateOf(res.st),
                   log   |-> res.st.log,
                   dirty |-> rng.pos > 0]
    /\ rng' = call'.st
    /\ UNCHANGED <<pending, sent, client, net>>

NextGen == \E gen \in Gens, index \in 1..MaxIndex : Generate(gen, index)

SpecGen == InitGen /\ [][NextGen]_vars

(***************************************************************************)
(* Concurrent requests: NumConns connections, each with a request waiting  *)
(* or not; the handler runs on them one at a time, in any order.           *)
(***************************************************************************)

\* Requests with identical parameters (same and different pages) and with
\* different parameters.
ConcBodies ==
    { BodyOf(1, BookDataGenerator("en-US", 42, 60, 24)),
      BodyOf(2, BookDataGenerator("en-US", 42, 60, 24)),
      BodyOf(0, BookDataGenerator("de-DE", 7, 0, 8)) }

NextConc ==
    \/ \E c \in Conns, body \in ConcBodies : Receive(c, body)
    \/ \E c \in Conns : Handle(c)

SpecConc == InitServer /\ [][NextConc]_vars

(***************************************************************************)
(* generateExactCount alone, applied to any target in [0, 20] (in tenths)  *)
(* on the stream wherever it stands.                                       *)
(***************************************************************************)

Targets == 0..200

InitCount ==
    /\ rng \in [seed : BootSeeds \cup {uniqueSeed(gen, 1) : gen \in Gens}, pos : {0}]
    /\ pending = [c \in Conns |-> None]
    /\ sent = None
    /\ call = None
    /\ client = None
    /\ net = <<>>

\* generateExactCount(targetValue).  next is the value the stream holds next
\* when the call starts, log the record of what the call asked of the stream.
Count(targetValue) ==
    /\ rng.pos < MaxDraws
    /\ LET res == generateExactCount(targetValue, Stream(rng), "count")
       IN call' = [kind   |-> "generateExactCount",
                   target |-> targetValue,
                   next   |-> Uniform(rng.seed, rng.pos),
                   v      |-> res.v,
                   st     |-> StateOf(res.st),
                   log    |-> res.st.log]
    /\ rng' = call'.st
    /\ UNCHANGED <<pending, sent, client, net>>

NextCount == \E targetValue \in Targets : Count(targetValue)

SpecCount == InitCount /\ [][NextCount]_vars

(***************************************************************************)
(* generateCoverImage called on its own                                    *)
(***************************************************************************)

\* Generators of covers: those of the records, and two with seeds far below
\* zero, one under and one over the fingerprint of its parameters.
CoverGens ==
    Gens \cup { BookDataGenerator("en-US", -70000000, 0, 0),
                BookDataGenerator("en-US", -65000000, 0, 0) }

\* Titles as generateBookTitle composes them, of 7, 24, 25, 26 and 30
\* characters.
CoverTitles ==
    { <<"o","l","d"," ">> \o Nouns[1],
      <<"T","h","e"," ">> \o Adjectives[3] \o <<" ">> \o Nouns[2],
      <<"D","i","e"," ">> \o Adjectives[3] \o <<"e"," ">> \o Nouns[2],
      Nouns[3] \o <<" ","o","f"," ">> \o <<"s","e","a"," ","s","e","a","s">>,
      <<"A"," ">> \o Adjectives[3] \o <<" ">> \o Nouns[3] }

\* Names of 7, 10, 20, 21 and 25 characters.
CoverAuthors ==
    { FullNames[1], FullNames[2], SubSeq(FullNames[3], 1, 20),
      SubSeq(FullNames[3], 1, 21), FullNames[3] }

InitCover ==
    /\ rng \in [seed : BootSeeds, pos : {0}]
    /\ pending = [c \in Conns |-> None]
    /\ sent = None
    /\ call = None
    /\ client = None
    /\ net = <<>>

\* generateCoverImage(title, author, index) on generator gen.  seeded is the
\* seed setSeedForIndex(index) gives the stream for the same record; the
\* stream itself is not touched by the call.  One call is made in a run: a
\* call leaves nothing behind that a later call could read.
Cover(gen, title, author, index) ==
    /\ call = None
    /\ call' = [kind   |-> "generateCoverImage",
                gen    |-> gen,
                index  |-> index,
                title  |-> title,
                author |-> author,
                seeded |-> setSeedForIndex(gen, index, Stream(rng)).seed,
                v      |-> generateCoverImage(gen, title, author, index)]
    /\ UNCHANGED <<rng, pending, sent, client, net>>

NextCover ==
    \E gen \in CoverGens, title \in CoverTitles, author \in CoverAuthors, index \in 1..MaxIndex :
        Cover(gen, title, author, index)

SpecCover == InitCover /\ [][NextCover]_vars

(***************************************************************************)
(* determineReviewSentiment called on its own                              *)
(***************************************************************************)

\* The numbers of likes a call is made with: generateExactCount yields 0..10
\* for the averages the schema admits; 11 and 12 are beyond that, where the
\* ratio is cut to 1.
LikesValues == 0..12

\* Seeds whose first draw lies on or just under a threshold of the bands
\* (0.2, 0.5, 0.6, 0.8, 0.85, 0.95), next to the seeds of a started server.
SentimentSeeds ==
    BootSeeds \cup {990, 499, 690, 199, 590, 99, 390, 899, 840, 349, 740, 249}

InitSentiment ==
    /\ rng \in [seed : SentimentSeeds, pos : {0}]
    /\ pending = [c \in Conns |-> None]
    /\ sent = None
    /\ call = None
    /\ client = None
    /\ net = <<>>

\* determineReviewSentiment(bookLikes).  next is the value the stream holds
\* next when the call starts, before the state of the stream at that time.
Sentiment(bookLikes) ==
    /\ rng.pos < MaxDraws
    /\ LET res == determineReviewSentiment(bookLikes, Stream(rng))
       IN call' = [kind   |-> "determineReviewSentiment",
                   likes  |-> bookLikes,
                   next   |-> Uniform(rng.seed, rng.pos),
                   before |-> rng,
                   v      |-> res.v,
                   st     |-> StateOf(res.st),
                   log    |-> res.st.log]
    /\ rng' = call'.st
    /\ UNCHANGED <<pending, sent, client, net>>

NextSentiment == \E bookLikes \in LikesValues : Sentiment(bookLikes)

SpecSentiment == InitSentiment /\ [][NextSentiment]_vars

(***************************************************************************)
(* The parameters alone: a generator instance is constructed for a         *)
(* parameter tuple, then for the tuple with one parameter changed, as when *)
(* the user moves one control and the next request carries the new value.  *)
(* The averages are multiples of 0.1, as the sliders of the client give    *)
(* them.                                                                   *)
(***************************************************************************)

HashLocales == SupportedLocales

HashSeeds == {-7, 0, 42, 12345}

HashLikes == {0, 1, 5, 9, 10, 37, 50, 99, 100}

HashReviews == {0, 1, 9, 10, 47, 100, 115, 199, 200}

InitHash ==
    /\ rng \in [seed : BootSeeds, pos : {0}]
    /\ pending = [c \in Conns |-> None]
    /\ sent = None
    /\ call \in { [kind |-> "parameters", gen |-> BookDataGenerator(l, 42, a, r),
                     prev |-> None, changed |-> "none"] :
                       l \in HashLocales, a \in HashLikes, r \in HashReviews }
    /\ client = None
    /\ net = <<>>

\* One parameter of the tuple gets another value; prev is the tuple before.
Change(parameter, gen) ==
    /\ call.prev = None
    /\ gen # call.gen
    /\ call' = [kind |-> "parameters", gen |-> gen, prev |-> call.gen, changed |-> parameter]
    /\ UNCHANGED <<rng, pending, sent, client, net>>

NextHash ==
    \/ \E l \in HashLocales : Change("locale", [call.gen EXCEPT !.locale = l])
    \/ \E n \in HashSeeds : Change("seed", [call.gen EXCEPT !.baseSeed = n])
    \/ \E a \in HashLikes : Change("avgLikes", [call.gen EXCEPT !.avgLikes = a])
    \/ \E r \in HashReviews : Change("avgReviews", [call.gen EXCEPT !.avgReviews = r])

SpecHash == InitHash /\ [][NextHash]_vars

(***************************************************************************)
(* The client (AppContent) scrolling one feed: the parameters stay as they *)
(* are at the first render.  net holds the fetches of the client in        *)
(* flight: of each its request until the server has handled it, then its   *)
(* response; pageNum and reset are the arguments of the loadBooks call     *)
(* that waits for it.                                                      *)
(* Connection 2 carries requests sent to the server by somebody else.      *)
(***************************************************************************)

ClientGens == {BookDataGenerator("de-DE", 7, 0, 8)}

\* The state of AppContent at its first render.  mounted says that the
\* effect of the first render has run; received is the list of the pages
\* whose responses loadBooks has taken in, in order.
InitialRender(gen) ==
    [kind       |-> "client",
     gen        |-> gen,
     books      |-> <<>>,
     loading    |-> FALSE,
     loadingRef |-> FALSE,
     page       |-> 0,
     hasMore    |-> TRUE,
     error      |-> "null",
     mounted    |-> FALSE,
     received   |-> <<>>]

InitClient ==
    /\ rng \in [seed : BootSeeds, pos : {0}]
    /\ pending = [c \in Conns |-> None]
    /\ sent = None
    /\ call = None
    /\ client \in { InitialRender(gen) : gen \in ClientGens }
    /\ net = <<>>

\* The sequence s without its i-th element.
RemoveAt(s, i) == SubSeq(s, 1, i - 1) \o SubSeq(s, i + 1, Len(s))

\* loadBooks without the test of loadingRef.
loadBooksUnguarded(c, pageNum, reset) ==
    /\ client' = [c EXCEPT !.loadingRef = TRUE, !.loading = TRUE, !.error = "null",
                           !.mounted = TRUE]
    /\ net' = Append(net, [kind    |-> "request",
                           body    |-> BodyOf(pageNum, c.gen),
                           pageNum |-> pageNum,
                           reset   |-> reset])

\* loadBooks(pageNum, reset) up to its await, called in the render whose
\* state is c: nothing when a load is under way, else the flags are set and
\* the request leaves with the parameters of that render.
loadBooks(c, pageNum, reset) ==
    IF c.loadingRef
    THEN /\ client' = c
         /\ net' = net
    ELSE /\ client' = [c EXCEPT !.loadingRef = TRUE, !.loading = TRUE, !.error = "null",
                                !.mounted = TRUE]
         /\ net' = Append(net, [kind    |-> "request",
                                body    |-> BodyOf(pageNum, c.gen),
                                pageNum |-> pageNum,
                                reset   |-> reset])

\* The effect of the first render: loadBooks(0, true).
Mount ==
    /\ ~client.mounted
    /\ loadBooks(client, 0, TRUE)
    /\ UNCHANGED <<rng, pending, sent, call>>

\* handleScroll without the test of hasMore.
ScrollWithoutHasMore ==
    /\ client.mounted
    /\ ~client.loadingRef
    /\ client.page + 1 <= MaxPage
    /\ loadBooks(client, client.page + 1, FALSE)
    /\ UNCHANGED <<rng, pending, sent, call>>

\* handleScroll with the list scrolled near its end: loadBooks(page + 1).
Scroll ==
    /\ client.mounted
    /\ ~client.loadingRef
    /\ client.hasMore
    /\ client.page + 1 <= MaxPage
    /\ loadBooks(client, client.page + 1, FALSE)
    /\ UNCHANGED <<rng, pending, sent, call>>

\* The handler runs on the request of the client.
Serve ==
    \E i \in 1..Len(net) :
        /\ net[i].kind = "request"
        /\ LET res == PostBooks(net[i].body, Stream(rng))
           IN /\ sent' = Response(1, net[i].body, res, {d \in Conns : pending[d] # None})
              /\ net' = [net EXCEPT ![i] = [kind    |-> "response",
                                            status  |-> res.status,
                                            json    |-> res.json,
                                            pageNum |-> net[i].pageNum,
                                            reset   |-> net[i].reset]]
        /\ rng' = sent'.st
        /\ UNCHANGED <<pending, call, client>>

\* The fetch resolves with an ok response: loadBooks goes on after its await.
Resolve ==
    \E i \in 1..Len(net) :
        /\ net[i].kind = "response"
        /\ net[i].status = 200
        /\ client' = [client EXCEPT
                        !.books      = IF net[i].reset THEN net[i].json.books
                                       ELSE @ \o net[i].json.books,
                        !.page       = IF net[i].reset THEN 0 ELSE net[i].pageNum,
                        !.hasMore    = net[i].json.hasMore,
                        !.loading    = FALSE,
                        !.loadingRef = FALSE,
                        !.received   = Append(@, net[i].json.page)]
        /\ net' = RemoveAt(net, i)
        /\ UNCHANGED <<rng, pending, sent, call>>

\* The fetch rejects (the request or the response is lost) or the response
\* is not ok: getBooks throws and loadBooks takes its catch branch.
Reject ==
    \E i \in 1..Len(net) :
        /\ client' = [client EXCEPT !.error = "Failed to load books.",
                                    !.loading = FALSE, !.loadingRef = FALSE]
        /\ net' = RemoveAt(net, i)
        /\ UNCHANGED <<rng, pending, sent, call>>

\* What somebody else asks of the server: a page past the last page the
\* client is offered.
DirectBodies == { BodyOf(MaxPage, ZeroGen) }

NextClient ==
    \/ Mount
    \/ Scroll
    \/ Serve
    \/ Resolve
    \/ Reject
    \/ \E body \in DirectBodies : Receive(2, body)
    \/ Handle(2)

SpecClient == InitClient /\ [][NextClient]_vars

(***************************************************************************)
(* The client with its controls in use: the locale is changed, the list is *)
(* refreshed and scrolled, and fetches succeed or fail, in any order.      *)
(* handleSeedChange, generateRandomSeed, handleAvgLikesChange and          *)
(* handleAvgReviewsChange set their parameter and run the same effect as   *)
(* handleLocaleChange; the locale stands for all of them.                  *)
(***************************************************************************)

\* The number of pages a session takes in.
MaxLoads == 2

\* The locales the select offers.
SessionLocales == SupportedLocales

\* The session starts on a server just started, with the parameters of
\* ZeroGen selected.
InitSession ==
    /\ rng = [seed |-> 0, pos |-> 0]
    /\ pending = [c \in Conns |-> None]
    /\ sent = None
    /\ call = None
    /\ client = InitialRender(ZeroGen)
    /\ net = <<>>

\* The effect on [locale, seed, avgLikes, avgReviews] in the render that
\* follows a change of a parameter to those of gen: the list is emptied, the
\* page set to 0, and loadBooks(0, true) called with the new parameters.
ParametersEffect(gen) ==
    /\ client.mounted
    /\ gen # client.gen
    /\ Len(client.received) < MaxLoads
    /\ loadBooks([client EXCEPT !.gen = gen, !.books = <<>>, !.page = 0, !.hasMore = TRUE],
                 0, TRUE)
    /\ UNCHANGED <<rng, pending, sent, call>>

\* handleLocaleChange: setLocale(value), then the effect.
handleLocaleChange(value) ==
    ParametersEffect([client.gen EXCEPT !.locale = value])

\* resetData, the handler of the Refresh button, which is disabled while
\* loading is set.
resetData ==
    /\ client.mounted
    /\ ~client.loading
    /\ Len(client.received) < MaxLoads
    /\ loadBooks([client EXCEPT !.books = <<>>, !.page = 0, !.hasMore = TRUE], 0, TRUE)
    /\ UNCHANGED <<rng, pending, sent, call>>

\* handleScroll on a list with rows: an empty table has nothing to scroll.
ScrollRows ==
    /\ client.books # <<>>
    /\ Len(client.received) < MaxLoads
    /\ Scroll

NextSession ==
    \/ Mount
    \/ ScrollRows
    \/ \E value \in SessionLocales : handleLocaleChange(value)
    \/ resetData
    \/ Serve
    \/ Resolve
    \/ Reject

SpecSession == InitSession /\ [][NextSession]_vars

(***************************************************************************)
(* The claims.  Each is stated on what the actions record of their last   *)
(* run: call (a direct call), sent (a response), client and net.           *)
(***************************************************************************)

\* The response of a handler run that accepted the request.
Served == sent.kind = "response" /\ sent.status = 200

\* The indices of the books of a response, in order.
IndicesOf(json) == [i \in 1..Len(json.books) |-> json.books[i].index]

\* How many entries of log are the label.
CountLabel(log, label) == Cardinality({ j \in 1..Len(log) : log[j] = label })

(***************************************************************************)
(* C1: generateBook does not depend on what was generated before           *)
(***************************************************************************)

\* C1: the record generateBook returns for (parameters, index) is the one it
\* returns on a stream nobody has used, whatever was generated before the
\* call on the shared stream.
C1_SameRecordAfterAnyHistory ==
    call.kind = "generateBook" =>
        call.book = generateBook(call.gen, call.index, FreshStream).v

\* A record generated on a stream that earlier calls have advanced.
C1_Witness ==
    /\ call.kind = "generateBook"
    /\ call.dirty
    /\ call.gen = BookDataGenerator("en-US", 42, 60, 24)
    /\ call.index = 7
    /\ Len(call.book.reviews) > 0

(***************************************************************************)
(* C2: the indices of a page                                               *)
(***************************************************************************)

\* C2: page 0 carries 20 records with indices 1..20 and page k >= 1 carries
\* 10 records with indices 20+(k-1)*10+1 onward, whatever the other
\* parameters; the last index of page k is 20+10k, one before the first of
\* page k+1, so pages 0..k concatenated are 1..20+10k without duplicate or
\* gap.
C2_PageIndices ==
    Served =>
        LET k     == sent.json.page
            first == IF k = 0 THEN 1 ELSE 20 + (k - 1) * 10 + 1
            count == IF k = 0 THEN 20 ELSE 10
        IN /\ IndicesOf(sent.json) = [i \in 1..count |-> first + i - 1]
           /\ sent.json.books[Len(sent.json.books)].index = 20 + 10 * k

\* Page 1 served with non-zero averages on a used stream: 10 records that
\* carry reviews, with indices 21..30.
C2_Witness ==
    /\ Served
    /\ sent.before.pos > 0
    /\ sent.json.page = 1
    /\ sent.json.metadata.avgReviews = 30
    /\ \A i \in 1..10 : sent.json.books[i].index = 20 + i /\ Len(sent.json.books[i].reviews) = 3

(***************************************************************************)
(* C3: concurrent requests                                                 *)
(***************************************************************************)

\* C3: whatever requests wait on the other connections and whatever was
\* handled before, in whatever order, the response to a request is the
\* response the handler gives to that request alone on an unused stream.
C3_NoInterference ==
    sent.kind = "response" => sent.json = PostBooks(sent.body, FreshStream).json

\* A response sent on a used stream while a request with the same
\* parameters and page waits on another connection.
C3_Witness ==
    /\ sent.kind = "response"
    /\ sent.status = 200
    /\ sent.before.pos > 0
    /\ \E d \in sent.others : pending[d] # None /\ pending[d].body = sent.body
    /\ Len(sent.json.books) = 10

(***************************************************************************)
(* C4: the parameter fingerprint                                           *)
(***************************************************************************)

\* C4 as stated: changing any one of the four parameters changes the
\* fingerprint and the derived seed of every index.
C4_EveryParameterChangesFingerprint ==
    call.kind = "parameters" /\ call.prev # None =>
        /\ hashParameters(call.gen) # hashParameters(call.prev)
        /\ \A index \in 1..MaxIndex : uniqueSeed(call.gen, index) # uniqueSeed(call.prev, index)

\* C4, amended: changing locale, avgLikes or avgReviews (multiples of 0.1)
\* changes the fingerprint and with it the derived seed of every index;
\* changing the seed leaves the fingerprint as it was and moves the derived
\* seed of every index by the difference of the seeds.
C4_FingerprintOfLocaleAndAverages ==
    call.kind = "parameters" /\ call.prev # None =>
        IF call.changed = "seed"
        THEN /\ hashParameters(call.gen) = hashParameters(call.prev)
             /\ \A index \in 1..MaxIndex :
                   uniqueSeed(call.gen, index) - uniqueSeed(call.prev, index)
                       = call.gen.baseSeed - call.prev.baseSeed
        ELSE /\ hashParameters(call.gen) # hashParameters(call.prev)
             /\ \A index \in 1..MaxIndex :
                   uniqueSeed(call.gen, index) # uniqueSeed(call.prev, index)

\* avgReviews changed from 4.7 to 11.5, the rest as it was.
C4_Witness ==
    /\ call.kind = "parameters"
    /\ call.changed = "avgReviews"
    /\ call.prev = BookDataGenerator("ja-JP", 42, 50, 47)
    /\ call.gen = BookDataGenerator("ja-JP", 42, 50, 115)
    /\ hashParameters(call.gen) # hashParameters(call.prev)

(***************************************************************************)
(* C5: the draws of generateExactCount                                     *)
(***************************************************************************)

\* C5 as stated: every non-zero target, whole ones included, draws one
\* uniform value u and returns floor(target)+1 if u < target - floor(target),
\* else floor(target).
C5_OneDrawForEveryTarget ==
    call.kind = "generateExactCount" /\ call.target # 0 =>
        /\ Len(call.log) = 1
        /\ call.v = IF call.next < (call.target % 10) * 100 THEN call.target \div 10 + 1
                    ELSE call.target \div 10

\* C5, amended: a non-zero target with a fractional part draws one uniform
\* value u and returns floor(target)+1 if u < target - floor(target), else
\* floor(target); a whole non-zero target draws nothing and returns itself.
C5_DrawOnlyForFraction ==
    call.kind = "generateExactCount" /\ call.target # 0 =>
        LET n == call.target \div 10
            f == call.target % 10
        IN IF f > 0
           THEN /\ call.log = <<"count">>
                /\ call.v = IF call.next < f * 100 THEN n + 1 ELSE n
           ELSE /\ call.log = <<>>
                /\ call.v = n

\* A whole target applied without a draw, after two draws made for
\* fractional targets.
C5_Witness ==
    /\ call.kind = "generateExactCount"
    /\ call.target = 50
    /\ call.v = 5
    /\ call.log = <<>>
    /\ rng.pos = 2

(***************************************************************************)
(* C6: zero averages                                                       *)
(***************************************************************************)

\* C6: with a zero average the count is 0 and the stream is not asked for
\* it: with avgLikes = 0 every record has likes = 0 and the run makes no
\* draw for likes, with avgReviews = 0 every record has no reviews and the
\* run makes no draw for the number of reviews; with both zero, page 0 is 20
\* such records with indices 1..20.
C6_ZeroAverages ==
    Served =>
        LET json  == sent.json
            books == json.books
        IN /\ json.metadata.avgLikes = 0 =>
                /\ \A i \in 1..Len(books) : books[i].likes = 0
                /\ \A j \in 1..Len(sent.log) : sent.log[j] # "likes"
           /\ json.metadata.avgReviews = 0 =>
                /\ \A i \in 1..Len(books) : books[i].reviews = <<>>
                /\ \A j \in 1..Len(sent.log) :
                      sent.log[j] \notin {"numReviews", "sentiment", "rating", "text"}
           /\ json.metadata.avgLikes = 0 /\ json.metadata.avgReviews = 0 /\ json.page = 0 =>
                IndicesOf(json) = [i \in 1..20 |-> i]

\* Page 0 of the zero averages, served on a used stream.
C6_Witness ==
    /\ Served
    /\ sent.before.pos > 0
    /\ sent.json.page = 0
    /\ sent.json.metadata.avgLikes = 0
    /\ sent.json.metadata.avgReviews = 0
    /\ Len(sent.json.books) = 20
    /\ sent.log # <<>>

(***************************************************************************)
(* C7: hasMore                                                             *)
(***************************************************************************)

\* C7: hasMore is false exactly for pages 50 and later, whatever the other
\* parameters; page 1 carries hasMore = true and the indices 21..30.
C7_HasMore ==
    Served =>
        /\ sent.json.hasMore = FALSE <=> sent.json.page >= 50
        /\ sent.json.page = 1 =>
              /\ sent.json.hasMore = TRUE
              /\ IndicesOf(sent.json) = [i \in 1..10 |-> 20 + i]

\* Page 50 served: the first page with hasMore = false.
C7_Witness ==
    /\ Served
    /\ sent.json.page = 50
    /\ sent.json.hasMore = FALSE

(***************************************************************************)
(* C8: the end of the feed                                                 *)
(***************************************************************************)

\* C8 as stated: the client that follows hasMore takes in at most 50 pages,
\* and the server serves no records for a page past the maximum.
C8_FiftyPagesAndNothingBeyond ==
    /\ client.kind = "client" => Len(client.received) <= 50
    /\ Served /\ sent.json.page > 50 => sent.json.books = <<>>

\* C8, amended: the client that follows hasMore asks for pages 0..50 only
\* and takes in at most 51 pages, each once and in order, 520 records at
\* most; the server has no maximum of its own: asked for a page past 50 it
\* serves the 10 records of that page, with hasMore = false.
C8_FiftyOnePagesAndServerUnbounded ==
    /\ client.kind = "client" =>
          /\ Len(client.received) <= 51
          /\ \A i \in 1..Len(client.received) : client.received[i] <= 50
          /\ \A i \in 1..(Len(client.received) - 1) :
                client.received[i] < client.received[i + 1]
          /\ Len(client.books) <= 520
          /\ \A i \in 1..Len(net) : net[i].pageNum <= 50
    /\ Served /\ sent.json.page > 50 =>
          /\ Len(sent.json.books) = 10
          /\ sent.json.books[1].index = PageStartIndex(sent.json.page)
          /\ sent.json.hasMore = FALSE

\* The client has taken in pages 0..50 and is offered no more, and the
\* server has served a page past 50 to somebody else.
C8_Witness ==
    /\ client.kind = "client"
    /\ client.received = [i \in 1..51 |-> i - 1]
    /\ Len(client.books) = 520
    /\ client.page = 50
    /\ ~client.hasMore
    /\ Served
    /\ sent.json.page = 51
    /\ Len(sent.json.books) = 10

(***************************************************************************)
(* C9: rating and text of a review                                         *)
(***************************************************************************)

\* The rating set the claim gives each sentiment.
RatingSetOf(s) ==
    CASE s = "positive" -> {5, 4, 3}
      [] s = "neutral"  -> {3, 4, 2}
      [] s = "negative" -> {1, 2, 3}

\* The texts of the corpus of sentiment s in the locale of gen.
CorpusOf(gen, s) ==
    { ReviewCorpus(gen.locale, s)[k] : k \in DOMAIN ReviewCorpus(gen.locale, s) }

\* C9: in every review of every generated record the text is of the corpus
\* of some sentiment s and the rating is in the rating set of that s; the
\* run samples one sentiment per review, and every rating is in 1..5.
C9_RatingAndTextShareSentiment ==
    call.kind = "generateBook" =>
        /\ \A i \in 1..Len(call.book.reviews) :
              LET review == call.book.reviews[i]
              IN /\ \E s \in {"positive", "neutral", "negative"} :
                       review.text \in CorpusOf(call.gen, s) /\ review.rating \in RatingSetOf(s)
                 /\ review.rating \in 1..5
        /\ CountLabel(call.log, "sentiment") = Len(call.book.reviews)

\* A record with several reviews, one of them with a negative text and one
\* of them with a positive text, each with a rating of its own sentiment.
C9_Witness ==
    /\ call.kind = "generateBook"
    /\ call.dirty
    /\ \E i, j \in 1..Len(call.book.reviews) :
          /\ call.book.reviews[i].text \in CorpusOf(call.gen, "negative")
          /\ call.book.reviews[i].rating \in {1, 2}
          /\ call.book.reviews[j].text \in CorpusOf(call.gen, "positive")
          /\ call.book.reviews[j].rating = 5

(***************************************************************************)
(* C10: invalid requests                                                   *)
(***************************************************************************)

\* The bodies the claim calls invalid.
FailsValidation(body) ==
    \/ ~(body.page.kind = "number" /\ body.page.frac = 0 /\ body.page.int >= 0)
    \/ body.locale.kind # "absent"
          /\ ~(body.locale.kind = "string" /\ body.locale.str \in {"en-US", "de-DE", "ja-JP"})
    \/ ~(body.seed.kind = "number" /\ body.seed.frac = 0)
    \/ ~(/\ body.avgLikes.kind = "number"
         /\ body.avgLikes.int * 10 + body.avgLikes.frac \in 0..100)
    \/ ~(/\ body.avgReviews.kind = "number"
         /\ body.avgReviews.int * 10 + body.avgReviews.frac \in 0..200)

\* C10: a request whose body fails validation is answered 400 with no books,
\* and its run neither seeds nor draws from the stream: the stream is after
\* the run as it was before.
C10_RejectedBeforeGeneration ==
    sent.kind = "response" /\ FailsValidation(sent.body) =>
        /\ sent.status = 400
        /\ "books" \notin DOMAIN sent.json
        /\ sent.log = <<>>
        /\ sent.st = sent.before

\* avgLikes = 10.1 refused on a stream that earlier requests have used.
C10_Witness ==
    /\ sent.kind = "response"
    /\ sent.before.pos > 0
    /\ sent.body.avgLikes = Num(10, 1)
    /\ sent.status = 400
    /\ sent.json.details = <<[kind |-> "error", key |-> "avgLikes", type |-> "number.max"]>>

(***************************************************************************)
(* C11: the order of the draws of a record                                 *)
(***************************************************************************)

\* n copies of the sequence s, one after the other.
RECURSIVE Repeat(_, _)
Repeat(s, n) == IF n = 0 THEN <<>> ELSE s \o Repeat(s, n - 1)

\* What a record asks of the stream, in the order the claim gives, for a
\* record of generator gen with the given numbers of authors and reviews:
\* the draws for likes and for the review count are made for averages with
\* a fractional part only.
DrawOrder(gen, numAuthors, numReviews) ==
    <<"seed">>
        \o <<"title", "title", "title">>
        \o <<"numAuthors">>
        \o Repeat(<<"author">>, numAuthors)
        \o <<"publisher", "publisher">>
        \o <<"year">>
        \o (IF gen.avgLikes % 10 # 0 THEN <<"likes">> ELSE <<>>)
        \o (IF gen.avgReviews % 10 # 0 THEN <<"numReviews">> ELSE <<>>)
        \o Repeat(<<"sentiment", "rating", "text", "reviewer", "date">>, numReviews)
        \o <<"isbn", "isbn", "isbn", "isbn", "isbn">>

\* C11: a run of generateBook seeds the stream once, before its first draw,
\* and then draws for title, author count, authors, publisher, year, likes,
\* review count, the reviews in turn (sentiment, rating, text, reviewer,
\* date), and last the ISBN; the cover draws nothing, so the stream stands
\* after the run at the number of draws of that list.
C11_DrawOrder ==
    call.kind = "generateBook" =>
        /\ call.log = DrawOrder(call.gen, Len(call.book.authors), Len(call.book.reviews))
        /\ CountLabel(call.log, "seed") = 1
        /\ call.st.pos = Len(call.log) - 1

\* A record with several authors and two reviews, generated on a used
\* stream with draws for both counts.
C11_Witness ==
    /\ call.kind = "generateBook"
    /\ call.dirty
    /\ call.gen.avgLikes % 10 # 0
    /\ call.gen.avgReviews % 10 # 0
    /\ Len(call.book.authors) >= 2
    /\ Len(call.book.reviews) = 2
    /\ Len(call.log) = 25 + Len(call.book.authors)

(***************************************************************************)
(* C12: the sentiment of a review                                          *)
(***************************************************************************)

\* The band of a number of likes, by r = min(likes / 10, 1) compared with 0.7
\* and 0.4; both sides of each comparison are multiplied by 10.
BandOf(likes) ==
    LET r10 == IF likes < 10 THEN likes ELSE 10
    IN IF r10 > 7 THEN "high" ELSE IF r10 > 4 THEN "middle" ELSE "low"

\* The thresholds of a band in thousandths: under the first the sentiment is
\* positive, from the first and under the second neutral, else negative.
BandThresholds(band) ==
    CASE band = "high"   -> <<800, 950>>
      [] band = "middle" -> <<500, 850>>
      [] band = "low"    -> <<200, 600>>

\* C12: determineReviewSentiment makes exactly one draw u and answers by the
\* band of r = min(likes / 10, 1): r > 0.7 with thresholds 0.8 and 0.95,
\* 0.4 < r <= 0.7 with 0.5 and 0.85, r <= 0.4 with 0.2 and 0.6; 4 likes are
\* in the lowest band, 7 likes in the middle one.
C12_SentimentBands ==
    call.kind = "determineReviewSentiment" =>
        LET u == call.next
            t == BandThresholds(BandOf(call.likes))
        IN /\ call.log = <<"sentiment">>
           /\ call.st = [seed |-> call.before.seed, pos |-> call.before.pos + 1]
           /\ call.v = (IF u < t[1] THEN "positive"
                        ELSE IF u < t[2] THEN "neutral" ELSE "negative")
           /\ call.likes = 4 => t = <<200, 600>>
           /\ call.likes = 7 => t = <<500, 850>>
           /\ call.likes = 8 => t = <<800, 950>>

\* 7 likes and a draw of exactly 0.5: the middle band answers neutral, where
\* the highest band would answer positive.
C12_Witness ==
    /\ call.kind = "determineReviewSentiment"
    /\ call.likes = 7
    /\ call.next = 500
    /\ call.v = "neutral"

(***************************************************************************)
(* C13: the cover descriptor                                               *)
(***************************************************************************)

\* C13: for every base seed, negative ones included, the identifier in the
\* cover's address is (baseSeed + fingerprint + index) mod 1000, a value in
\* 0..999, of the sum that seeds the record's stream; the cover's title is
\* the title cut to 25 characters and "..." when longer, its author the
\* author cut to 20 characters and "..." when longer.
C13_CoverIdentifier ==
    call.kind = "generateCoverImage" =>
        LET sum == call.gen.baseSeed + hashParameters(call.gen) + call.index
        IN /\ call.seeded = sum
           /\ call.v.imageUrl[2] = sum % 1000
           /\ call.v.imageUrl[2] \in 0..999
           /\ call.v.title = (IF Len(call.title) > 25
                              THEN SubSeq(call.title, 1, 25) \o <<".", ".", ".">>
                              ELSE call.title)
           /\ call.v.author = (IF Len(call.author) > 20
                               THEN SubSeq(call.author, 1, 20) \o <<".", ".", ".">>
                               ELSE call.author)

(***************************************************************************)
(* C14: a larger seed shifts the dataset                                   *)
(***************************************************************************)

\* The largest difference of seeds compared.
MaxShift == 3

\* The record at index + d of the generator whose seed is d less than that
\* of gen, locale and averages the same, generated on a fresh stream.
ShiftedBook(gen, index, d) ==
    generateBook(BookDataGenerator(gen.locale, gen.baseSeed - d, gen.avgLikes, gen.avgReviews),
                 index + d, FreshStream)

\* C14: the record of (seed S + d, index i) has the derived seed of the
\* record of (seed S, index i + d) and the same title, authors, publisher,
\* year, likes, reviews, isbn and cover; the two differ in the index only.
C14_SeedShiftsDataset ==
    call.kind = "generateBook" =>
        \A d \in 0..MaxShift :
            LET shifted == ShiftedBook(call.gen, call.index, d)
            IN /\ shifted.st.seed = uniqueSeed(call.gen, call.index)
               /\ shifted.st.seed = call.st.seed
               /\ shifted.v.index = call.index + d
               /\ [shifted.v EXCEPT !.index = call.index] = call.book

\* A record with three reviews of a negative seed, generated on a used
\* stream, that the generator of a seed three less yields three places on.
C14_Witness ==
    /\ call.kind = "generateBook"
    /\ call.dirty
    /\ call.gen.baseSeed < 0
    /\ Len(call.book.reviews) = 3
    /\ ShiftedBook(call.gen, call.index, MaxShift).v.index = call.index + 3
    /\ ShiftedBook(call.gen, call.index, MaxShift).v.isbn = call.book.isbn
    /\ ShiftedBook(call.gen, call.index, MaxShift).v.coverImage = call.book.coverImage

(***************************************************************************)
(* C15: the list and the selected parameters                               *)
(***************************************************************************)

\* C15: whenever no fetch is in flight, every book of the displayed list is
\* the book the currently selected locale, seed and averages generate at
\* its index, also when a parameter was changed while a fetch of the old
\* parameters was in flight.
C15_ListOfSelectedParameters ==
    (client.kind = "client" /\ net = <<>>) =>
        \A i \in 1..Len(client.books) :
            client.books[i] = generateBook(client.gen, client.books[i].index, FreshStream).v

(***************************************************************************)
(* C16: the indices of the list                                            *)
(***************************************************************************)

\* C16: the displayed list holds the indices 1..n in order, for n = 0 or
\* n = 20 + 10 k, with no duplicate and no gap, and the page counter is the
\* last page appended (0 for the empty list and for the first page).
C16_IndicesOneToN ==
    client.kind = "client" =>
        LET n == Len(client.books)
        IN /\ n = 0 \/ (n >= 20 /\ n % 10 = 0)
           /\ \A i \in 1..n : client.books[i].index = i
           /\ client.page = (IF n <= 20 THEN 0 ELSE (n - 20) \div 10)

(***************************************************************************)
(* C17: one fetch at a time                                                *)
(***************************************************************************)

\* C17: at most one fetch is in flight at any time; loadingRef is set
\* exactly while one is, so it is set before the request leaves, a load
\* called meanwhile issues nothing, and every response or failure clears
\* it; the loading flag shown to the user agrees with it.
C17_OneFetchInFlight ==
    client.kind = "client" =>
        /\ Len(net) <= 1
        /\ client.loadingRef <=> Len(net) = 1
        /\ client.loading = client.loadingRef

\* A parameter was changed while the fetch of a scrolled page was in flight:
\* that fetch is still the only one, and the guard is set.
C17_Witness ==
    /\ client.kind = "client"
    /\ Len(net) = 1
    /\ net[1].pageNum = 1
    /\ net[1].body.locale # Str(client.gen.locale)
    /\ client.loadingRef
    /\ client.books = <<>>

====
